---------------------------- MODULE Spec2Model ----------------------------
(***************************************************************************)
(* Model of the FOMC link scraper (01_fomc_link_scraper.py) and of the     *)
(* FOMC text extractor (02_fomc_text_extractor.py).                        *)
(*                                                                         *)
(* Strings are sequences of symbols.  A symbol is one character ("2",      *)
(* "-", "U") or, in locators, an atomic chunk of non-digit characters      *)
(* ("/press/monetary").  Digits are always single-character symbols, so    *)
(* the regular expressions over digits are modelled character by           *)
(* character.  Page text is run-length encoded: a sequence of runs         *)
(* [c |-> character, n |-> repetitions], n >= 1.                           *)
(***************************************************************************)
EXTENDS Integers, Sequences, FiniteSets, TLC

VARIABLES
    \* ---- date normalizers applied to one locator (SpecDate)
    dpc, durl, full_date, date_str,
    \* ---- one call of extract_text_from_url (SpecEngine)
    epc, response, soup, result, strategy,
    \* ---- FOMCLinkScraper.run (SpecScraper)
    spc, year_range, target_year, attempt, requested, index_page, all_data, saved,
    \* ---- FOMCTextExtractor.run, invoked once or several times (Spec)
    pc,             \* where the run is
    input_csv,      \* the manifest file: NoFile or its rows
    index,          \* the row index of the iteration (from 0, as pandas gives)
    text,           \* the text extract_text_from_url returned last
    fs,             \* the statements folder: file name -> contents
    run_no,         \* which invocation of run() this is
    fetches,        \* calls of extract_text_from_url in this invocation
    log,            \* what this invocation did, per iteration
    intended,       \* file name -> the text that was extracted to be written to it
    prev_end        \* the folder as the previous invocation left it when it
                    \* returned normally, else NoSnapshot

dateVars == <<dpc, durl, full_date, date_str>>

engineVars == <<epc, response, soup, result, strategy>>

scraperVars ==
    <<spc, year_range, target_year, attempt, requested, index_page, all_data, saved>>

runVars ==
    <<pc, input_csv, index, text, fs, run_no, fetches, log, intended, prev_end>>

vars == <<dateVars, engineVars, scraperVars, runVars>>

-----------------------------------------------------------------------------
(* Generic helpers                                                         *)

Min(S) == CHOOSE x \in S : \A y \in S : x <= y

Digits == {"0", "1", "2", "3", "4", "5", "6", "7", "8", "9"}

\* regex class \d on one symbol
IsDigit(c) == c \in Digits

\* all sequences over S of length 0..n
SeqsUpTo(S, n) == UNION {[1..k -> S] : k \in 0..n}

-----------------------------------------------------------------------------
(* 01_fomc_link_scraper.py : _extract_full_date                            *)

\* the value returned when no date is found
Unknown == <<"U", "n", "k", "n", "o", "w", "n">>

\* positions where r'(20\d{2})(\d{2})(\d{2})' matches in url
FullDateMatches(url) ==
    {i \in 1..Len(url) :
        /\ i + 7 <= Len(url)
        /\ url[i] = "2"
        /\ url[i + 1] = "0"
        /\ \A k \in 2..7 : IsDigit(url[i + k])}

\* f"{match.group(1)}-{match.group(2)}-{match.group(3)}" for the match at i
FormatDate(url, i) ==
    SubSeq(url, i, i + 3) \o <<"-">> \o SubSeq(url, i + 4, i + 5)
        \o <<"-">> \o SubSeq(url, i + 6, i + 7)

\* faulty variant: the last match is taken, not the first
extract_full_date_last(url) ==
    LET M == FullDateMatches(url)
    IN  IF M # {}
        THEN FormatDate(url, CHOOSE i \in M : \A j \in M : j <= i)
        ELSE Unknown

\* re.search returns the leftmost match
extract_full_date(url) ==
    LET M == FullDateMatches(url)
    IN  IF M # {} THEN FormatDate(url, Min(M)) ELSE Unknown

-----------------------------------------------------------------------------
(* 02_fomc_text_extractor.py : extract_date_from_url                       *)

\* decimal digits of a natural number, as str(n) writes them
RECURSIVE IntToStr(_)
IntToStr(n) ==
    IF n < 10
    THEN <<CHOOSE d \in Digits : d = ToString(n)>>
    ELSE IntToStr(n \div 10) \o IntToStr(n % 10)

\* positions where r'(\d{8})' matches in url
EightDigitMatches(url) ==
    {i \in 1..Len(url) :
        /\ i + 7 <= Len(url)
        /\ \A k \in 0..7 : IsDigit(url[i + k])}

UnknownDateSuffix == <<"_", "u", "n", "k", "n", "o", "w", "n", "_", "d", "a", "t", "e">>

extract_date_from_url(url, year) ==
    LET M == EightDigitMatches(url)
    IN  IF M # {}
        THEN FormatDate(url, Min(M))
        ELSE IntToStr(year) \o UnknownDateSuffix

-----------------------------------------------------------------------------
(* Text: run-length encoded strings                                        *)

Run(c, k) == [c |-> c, n |-> k]

\* the characters str.isspace() accepts, which are those \s matches
Whitespace == {" ", "\t", "\n", "nbsp"}

IsSpace(r) == r.c \in Whitespace

EmptyText == <<>>

\* len(text)
RECURSIVE TextLen(_)
TextLen(t) == IF t = <<>> THEN 0 ELSE Head(t).n + TextLen(Tail(t))

\* a + b on strings: the run ending a and the run starting b merge when they
\* repeat the same character
Concat(a, b) ==
    IF a = <<>> THEN b
    ELSE IF b = <<>> THEN a
    ELSE IF a[Len(a)].c = b[1].c
         THEN SubSeq(a, 1, Len(a) - 1)
                 \o <<Run(b[1].c, a[Len(a)].n + b[1].n)>> \o Tail(b)
         ELSE a \o b

\* re.sub(r'\s+', ' ', text): every maximal run of whitespace becomes one space
RECURSIVE ReSubSpaces(_)
ReSubSpaces(t) ==
    IF t = <<>> THEN <<>>
    ELSE IF IsSpace(Head(t))
         THEN LET rest == ReSubSpaces(Tail(t))
              IN  IF rest # <<>> /\ IsSpace(Head(rest))
                  THEN rest
                  ELSE <<Run(" ", 1)>> \o rest
         ELSE <<Head(t)>> \o ReSubSpaces(Tail(t))

\* str.lstrip()
RECURSIVE LStrip(_)
LStrip(t) ==
    IF t # <<>> /\ IsSpace(Head(t)) THEN LStrip(Tail(t)) ELSE t

\* str.rstrip()
RECURSIVE RStrip(_)
RStrip(t) ==
    IF t # <<>> /\ IsSpace(t[Len(t)])
    THEN RStrip(SubSeq(t, 1, Len(t) - 1))
    ELSE t

\* str.strip()
Strip(t) == RStrip(LStrip(t))

\* faulty variant: the runs are collapsed but the ends are not stripped
clean_text_no_strip(t) == ReSubSpaces(t)

clean_text(t) == Strip(ReSubSpaces(t))

\* text.split(): the maximal whitespace-free pieces, in order
RECURSIVE Split(_)
Split(t) ==
    IF t = <<>> THEN <<>>
    ELSE IF IsSpace(Head(t)) THEN Split(Tail(t))
    ELSE LET rest == Split(Tail(t))
         IN  IF Len(t) > 1 /\ ~IsSpace(t[2])
             THEN <<Concat(<<Head(t)>>, Head(rest))>> \o Tail(rest)
             ELSE <<<<Head(t)>>>> \o rest

\* " ".join(words)
RECURSIVE JoinSpace(_)
JoinSpace(words) ==
    IF words = <<>> THEN <<>>
    ELSE IF Len(words) = 1 THEN Head(words)
    ELSE Head(words) \o <<Run(" ", 1)>> \o JoinSpace(Tail(words))

-----------------------------------------------------------------------------
(* Pages: a parsed document is the sequence of its elements in document    *)
(* order; each element has a tag, an id, a class, a parent (0 is the       *)
(* document) and the text that stands directly in it.                      *)

\* soup(["script", "style", "nav", "footer", "header", "input", "button"])
StrippedTags == {"script", "style", "nav", "footer", "header", "input", "button"}

\* faulty variant: the ids are probed in another order
golden_ids_reordered == <<"content", "leftText", "article">>

\* golden_ids, in the order they are probed
golden_ids == <<"article", "leftText", "content">>

RECURSIVE IsAncestorOrSelf(_, _, _)
IsAncestorOrSelf(page, a, i) ==
    IF i = a THEN TRUE
    ELSE IF i = 0 THEN FALSE
    ELSE IsAncestorOrSelf(page, a, page[i].parent)

\* what is left after every element with a stripped tag is decomposed
\* together with its subtree
PreClean(page) ==
    {i \in 1..Len(page) :
        \A a \in 1..Len(page) :
            IsAncestorOrSelf(page, a, i) => page[a].tag \notin StrippedTags}

\* element.get_text(): the text of the elements of the subtree of i that are
\* still in the tree, in document order (i = 0: soup.get_text())
RECURSIVE TextFrom(_, _, _, _)
TextFrom(page, alive, i, j) ==
    IF j > Len(page) THEN EmptyText
    ELSE IF j \in alive /\ IsAncestorOrSelf(page, i, j)
         THEN Concat(page[j].text, TextFrom(page, alive, i, j + 1))
         ELSE TextFrom(page, alive, i, j + 1)

get_text(page, alive, i) == TextFrom(page, alive, i, 1)

\* soup.find('div', {'id': gid}): the first in document order, 0 for None
FindDivById(page, alive, gid) ==
    LET M == {i \in alive : page[i].tag = "div" /\ page[i].id = gid}
    IN  IF M = {} THEN 0 ELSE Min(M)

\* soup.find('div', {'class': 'col-md-8'})
FindDivByClass(page, alive) ==
    LET M == {i \in alive : page[i].tag = "div" /\ page[i].cls = "col-md-8"}
    IN  IF M = {} THEN 0 ELSE Min(M)

\* the element Strategy A returns the text of: the first golden id that is
\* found, else the Bootstrap class; 0 when there is none
RECURSIVE FirstGolden(_, _, _)
FirstGolden(page, alive, k) ==
    IF k > Len(golden_ids) THEN FindDivByClass(page, alive)
    ELSE IF FindDivById(page, alive, golden_ids[k]) # 0
         THEN FindDivById(page, alive, golden_ids[k])
         ELSE FirstGolden(page, alive, k + 1)

StrategyA(page, alive) == FirstGolden(page, alive, 1)

\* the minimum collapsed length of a Strategy B candidate
MinCandidateLen == 200

\* "if len(clean) < 200: continue"
KeepCandidate(clean) == ~(TextLen(clean) < MinCandidateLen)

\* the candidates list: for element in soup.find_all(['td', 'div']), in
\* document order from element j on
RECURSIVE Candidates(_, _, _)
Candidates(page, alive, j) ==
    IF j > Len(page) THEN <<>>
    ELSE IF j \in alive /\ page[j].tag \in {"td", "div"}
         THEN LET clean == JoinSpace(Split(get_text(page, alive, j)))
              IN  IF KeepCandidate(clean)
                  THEN <<clean>> \o Candidates(page, alive, j + 1)
                  ELSE Candidates(page, alive, j + 1)
         ELSE Candidates(page, alive, j + 1)

\* one insertion of list.sort(key=len, reverse=True): x goes after every
\* element at least as long (the sort is stable)
RECURSIVE InsertByLenDesc(_, _)
InsertByLenDesc(x, s) ==
    IF s = <<>> THEN <<x>>
    ELSE IF TextLen(Head(s)) >= TextLen(x)
         THEN <<Head(s)>> \o InsertByLenDesc(x, Tail(s))
         ELSE <<x>> \o s

\* faulty variant: reverse=True is forgotten, the shortest comes first
RECURSIVE SortByLenAsc(_)
SortByLenAsc(s) ==
    IF s = <<>> THEN <<>>
    ELSE LET rest == SortByLenAsc(Tail(s))
             x == Head(s)
             k == Cardinality({i \in 1..Len(rest) : TextLen(rest[i]) < TextLen(x)})
         IN  SubSeq(rest, 1, k) \o <<x>> \o SubSeq(rest, k + 1, Len(rest))

\* candidates.sort(key=len, reverse=True)
RECURSIVE SortByLenDesc(_)
SortByLenDesc(s) ==
    IF s = <<>> THEN <<>>
    ELSE InsertByLenDesc(s[Len(s)], SortByLenDesc(SubSeq(s, 1, Len(s) - 1)))

\* what extract_text_from_url does with an open response, whole: the
\* strategy that answers and the text it returns
ExtractFromPage(page) ==
    LET alive == PreClean(page)
        a == StrategyA(page, alive)
        cands == Candidates(page, alive, 1)
    IN  IF a # 0
        THEN [strategy |-> "A", text |-> clean_text(get_text(page, alive, a))]
        ELSE IF cands # <<>>
             THEN [strategy |-> "B", text |-> clean_text(SortByLenDesc(cands)[1])]
             ELSE [strategy |-> "C", text |-> clean_text(get_text(page, alive, 0))]

-----------------------------------------------------------------------------
(* SpecEngine: one call of extract_text_from_url, step by step             *)

\* most elements of a page drawn
MaxNodes == 2

\* the containers Strategy A knows
StructuralShapes ==
    {[tag |-> "div", id |-> "article", cls |-> "none"],
     [tag |-> "div", id |-> "leftText", cls |-> "none"],
     [tag |-> "div", id |-> "content", cls |-> "none"],
     [tag |-> "div", id |-> "none", cls |-> "col-md-8"]}

\* the generic blocks Strategy B looks at
GenericDiv == [tag |-> "div", id |-> "none", cls |-> "none"]
GenericTd == [tag |-> "td", id |-> "none", cls |-> "none"]

\* an element the pre-cleaning removes
ChromeShapes == {[tag |-> "nav", id |-> "none", cls |-> "none"]}

\* texts by the length of their collapsed form
TBlank == <<Run(" ", 1), Run("\n", 2)>>
T150 == <<Run("x", 150), Run(" ", 60)>>
T200 == <<Run("y", 100), Run("\t", 2), Run("y", 99)>>
T250 == <<Run("v", 125), Run("\n", 3), Run("v", 124)>>
T300 == <<Run("nbsp", 1), Run("a", 300)>>
T500 == <<Run("b", 250), Run(" ", 1), Run("\n", 1), Run("b", 249), Run("\t", 1)>>
T1800 == <<Run("\n", 1), Run("c", 900), Run(" ", 1), Run("d", 899)>>

\* the elements drawn: a shape with a text of its own
NodeMenu ==
    (StructuralShapes \X {TBlank, T300})
        \cup ({GenericDiv} \X {T150, T200, T300, T500, T1800})
        \cup ({GenericTd} \X {T150, T250, T300, T500})
        \cup (ChromeShapes \X {T500})

NodesUnder(parents) ==
    {[tag |-> e[1].tag, id |-> e[1].id, cls |-> e[1].cls, parent |-> q, text |-> e[2]] :
        e \in NodeMenu, q \in parents}

RECURSIVE PagesOf(_)
PagesOf(n) ==
    IF n = 0 THEN {<<>>}
    ELSE {Append(pg, nd) : pg \in PagesOf(n - 1), nd \in NodesUnder(0..(n - 1))}

\* the pages of at most n elements
PagesUpTo(n) == UNION {PagesOf(k) : k \in 0..n}

NoPage == <<>>

\* what the server may answer: an exception in the transport, a status
\* other than 200, or a page of at most n elements
ResponsesUpTo(n) ==
    {[outcome |-> "exception", page |-> NoPage],
     [outcome |-> "http_error", page |-> NoPage]}
        \cup {[outcome |-> "ok", page |-> pg] : pg \in PagesUpTo(n)}

EngineStart ==
    /\ epc = "request"
    /\ response = [outcome |-> "none", page |-> NoPage]
    /\ soup = {}
    /\ result = EmptyText
    /\ strategy = "none"

\* response = requests.get(url, headers=self.headers, timeout=15) and the
\* status check; a transport exception is caught by the except clause
Request ==
    /\ UNCHANGED <<dateVars, scraperVars, runVars>>
    /\ epc = "request"
    /\ \E r \in ResponsesUpTo(MaxNodes) :
          /\ response' = r
          /\ IF r.outcome = "ok"
             THEN /\ epc' = "parse"
                  /\ UNCHANGED <<result, strategy>>
             ELSE /\ epc' = "returned"
                  /\ result' = EmptyText
                  /\ strategy' = r.outcome
    /\ UNCHANGED soup

\* soup = BeautifulSoup(response.content, 'html.parser')
Parse ==
    /\ UNCHANGED <<dateVars, scraperVars, runVars>>
    /\ epc = "parse"
    /\ soup' = 1..Len(response.page)
    /\ epc' = "preclean"
    /\ UNCHANGED <<response, result, strategy>>

\* an exception raised while parsing or traversing: except Exception: return ""
ParseException ==
    /\ UNCHANGED <<dateVars, scraperVars, runVars>>
    /\ epc \in {"parse", "preclean"}
    /\ result' = EmptyText
    /\ strategy' = "exception"
    /\ epc' = "returned"
    /\ UNCHANGED <<response, soup>>

\* STEP 1: PRE-CLEANING
PreCleaning ==
    /\ UNCHANGED <<dateVars, scraperVars, runVars>>
    /\ epc = "preclean"
    /\ soup' = PreClean(response.page)
    /\ epc' = "strategyA"
    /\ UNCHANGED <<response, result, strategy>>

\* STRATEGY A: Known Containers
StrategyAStep ==
    /\ UNCHANGED <<dateVars, scraperVars, runVars>>
    /\ epc = "strategyA"
    /\ LET a == StrategyA(response.page, soup)
       IN  IF a # 0
           THEN /\ result' = clean_text(get_text(response.page, soup, a))
                /\ strategy' = "A"
                /\ epc' = "returned"
           ELSE /\ epc' = "strategyB"
                /\ UNCHANGED <<result, strategy>>
    /\ UNCHANGED <<response, soup>>

\* STRATEGY B: The Density Heuristic
StrategyBStep ==
    /\ UNCHANGED <<dateVars, scraperVars, runVars>>
    /\ epc = "strategyB"
    /\ LET cands == Candidates(response.page, soup, 1)
       IN  IF cands # <<>>
           THEN /\ result' = clean_text(SortByLenDesc(cands)[1])
                /\ strategy' = "B"
                /\ epc' = "returned"
           ELSE /\ epc' = "strategyC"
                /\ UNCHANGED <<result, strategy>>
    /\ UNCHANGED <<response, soup>>

\* STRATEGY C: Fallback
StrategyCStep ==
    /\ UNCHANGED <<dateVars, scraperVars, runVars>>
    /\ epc = "strategyC"
    /\ result' = clean_text(get_text(response.page, soup, 0))
    /\ strategy' = "C"
    /\ epc' = "returned"
    /\ UNCHANGED <<response, soup>>

EngineNext ==
    \/ Request
    \/ Parse
    \/ ParseException
    \/ PreCleaning
    \/ StrategyAStep
    \/ StrategyBStep
    \/ StrategyCStep

-----------------------------------------------------------------------------
(* 01_fomc_link_scraper.py : get_links_for_year and run                    *)

\* str.lower() on one symbol
Lower(c) ==
    CASE c = "Statement" -> "statement"
      [] c = "Minutes" -> "minutes"
      [] c = "PDF" -> "pdf"
      [] c = "Implementation Note" -> "implementation note"
      [] c = "Press Conference" -> "press conference"
      [] OTHER -> c

\* the keywords and path fragments that one lower-cased symbol contains
Fragments(c) ==
    CASE c = "statement" -> {"statement"}
      [] c = "minutes" -> {"minutes"}
      [] c = "pdf" -> {"pdf"}
      [] c = "implementation note" -> {"implementation"}
      [] c = "press conference" -> {"press conference"}
      [] c = "/newsevents/pressreleases/monetary" ->
            {"monetary", "pressreleases", "/newsevents/pressreleases/monetary"}
      [] c = "/newsevents/press/monetary/" ->
            {"monetary", "/newsevents/press/monetary"}
      [] c = "/boarddocs/press/general/" -> {"/boarddocs/press/general"}
      [] c = "/monetarypolicy/files/monetary" -> {"monetary"}
      [] c = "a.htm" -> {"a.htm"}
      [] OTHER -> {}

\* "k in s.lower()" for a keyword k
Has(str, k) == \E i \in 1..Len(str) : k \in Fragments(Lower(str[i]))

\* text.strip() on anchor text: blanks at the ends go
RECURSIVE StripBlanks(_)
StripBlanks(str) ==
    IF str # <<>> /\ Head(str) = " " THEN StripBlanks(Tail(str))
    ELSE IF str # <<>> /\ str[Len(str)] = " "
         THEN StripBlanks(SubSeq(str, 1, Len(str) - 1))
         ELSE str

base_url == "https://www.federalreserve.gov"

\* href.startswith('/')
StartsWithSlash(href) ==
    href # <<>> /\ href[1] \in {"/newsevents/pressreleases/monetary",
                               "/newsevents/press/monetary/",
                               "/boarddocs/press/general/",
                               "/monetarypolicy/files/monetary",
                               "/"}

DigitVal(d) ==
    CASE d = "0" -> 0 [] d = "1" -> 1 [] d = "2" -> 2 [] d = "3" -> 3
      [] d = "4" -> 4 [] d = "5" -> 5 [] d = "6" -> 6 [] d = "7" -> 7
      [] d = "8" -> 8 [] d = "9" -> 9

\* _extract_year_from_url: int of the leftmost match of r'(20\d{2})', 0 for None
extract_year_from_url(url) ==
    LET M == {i \in 1..Len(url) :
                /\ i + 3 <= Len(url)
                /\ url[i] = "2"
                /\ url[i + 1] = "0"
                /\ IsDigit(url[i + 2])
                /\ IsDigit(url[i + 3])}
    IN  IF M = {} THEN 0
        ELSE LET i == Min(M)
             IN  2000 + 10 * DigitVal(url[i + 2]) + DigitVal(url[i + 3])

exclusion_keywords ==
    {"minutes", "press conference", "call", "video", "pdf", "financial",
     "longer-run", "implementation", "correction", "projection", "balance sheet"}

valid_paths ==
    {"/newsevents/press/monetary", "/boarddocs/press/general",
     "/boarddocs/press/monetary", "/newsevents/pressreleases/monetary"}

\* from this year on the rolling calendar page is tried as well
RollingCalendarFrom == 2019

\* faulty variant: a link without a year is dropped only from the year on
\* from which the rolling calendar page is tried
YearRequiredFromRolling == RollingCalendarFrom

\* from this year on a link without a year is dropped
YearRequiredFrom == 2015

\* faulty variant: the exclusion keywords are not looked at when the link
\* has the form of a statement release
KeepsAnchorReleaseFirst(anchor, year) ==
    LET href == anchor.href
        label == StripBlanks(anchor.text)
        is_release ==
            Has(href, "monetary") /\ Has(href, "pressreleases") /\ Has(href, "a.htm")
        url_year == extract_year_from_url(href)
    IN  /\ href # <<>>
        /\ (Has(label, "statement") \/ is_release)
        /\ (is_release \/ ~\E k \in exclusion_keywords : Has(label, k))
        /\ ~(url_year # 0 /\ url_year # year)
        /\ ~(year >= YearRequiredFrom /\ url_year = 0)
        /\ \E pth \in valid_paths : Has(href, pth)

\* the filter of one anchor: TRUE when a record is appended for it
KeepsAnchor(anchor, year) ==
    LET href == anchor.href
        label == StripBlanks(anchor.text)
        is_statement ==
            \/ Has(label, "statement")
            \/ (Has(href, "monetary") /\ Has(href, "pressreleases") /\ Has(href, "a.htm"))
        url_year == extract_year_from_url(href)
    IN  /\ href # <<>>
        /\ is_statement
        /\ ~\E k \in exclusion_keywords : Has(label, k)
        /\ ~(url_year # 0 /\ url_year # year)
        /\ ~(year >= YearRequiredFrom /\ url_year = 0)
        /\ \E pth \in valid_paths : Has(href, pth)

\* the record appended for an anchor that passes the filter
LinkRecord(anchor, year) ==
    LET full_url == IF StartsWithSlash(anchor.href)
                    THEN <<base_url>> \o anchor.href
                    ELSE anchor.href
    IN  [Date |-> extract_full_date(full_url),
         Year |-> year,
         Date_Description |-> StripBlanks(anchor.text),
         URL |-> full_url]

\* links_found, for the anchors of the page in document order
RECURSIVE LinksFound(_, _)
LinksFound(anchors, year) ==
    IF anchors = <<>> THEN <<>>
    ELSE IF KeepsAnchor(Head(anchors), year)
         THEN <<LinkRecord(Head(anchors), year)>> \o LinksFound(Tail(anchors), year)
         ELSE LinksFound(Tail(anchors), year)

\* faulty variant: nothing is dropped
KeepAllRows(rows) == rows

\* the rows whose URL no earlier row has: the loop over links_found with
\* the seen set, and DataFrame.drop_duplicates(subset=['URL']), which keeps
\* the first of each
DropDuplicateUrls(rows) ==
    LET keep == {i \in 1..Len(rows) : \A j \in 1..(i - 1) : rows[j].URL # rows[i].URL}
        F[i \in 0..Len(rows)] ==
            IF i = 0 THEN <<>>
            ELSE IF i \in keep THEN Append(F[i - 1], rows[i]) ELSE F[i - 1]
    IN  F[Len(rows)]

get_links_for_year(anchors, year) == DropDuplicateUrls(LinksFound(anchors, year))

\* the code point of a character of a Date value
Ord(c) ==
    CASE c = "-" -> 45
      [] c \in Digits -> 48 + DigitVal(c)
      [] c = "U" -> 85
      [] c = "k" -> 107
      [] c = "n" -> 110
      [] c = "o" -> 111
      [] c = "w" -> 119

\* a < b on Python strings
RECURSIVE StrLess(_, _)
StrLess(a, b) ==
    IF b = <<>> THEN FALSE
    ELSE IF a = <<>> THEN TRUE
    ELSE IF Head(a) = Head(b) THEN StrLess(Tail(a), Tail(b))
    ELSE Ord(Head(a)) < Ord(Head(b))

\* faulty variant: the rows are ordered by the Year column instead
SortKeyYear(row) == IntToStr(row.Year)

\* the key of sort_values(by='Date')
SortKey(row) == row.Date

\* the results of inserting row x into the sorted rows s: after every row
\* with a smaller key and before every row with a larger one
InsertSorted(x, s) ==
    {SubSeq(s, 1, k) \o <<x>> \o SubSeq(s, k + 1, Len(s)) :
        k \in {k \in 0..Len(s) :
                /\ \A i \in 1..k : ~StrLess(SortKey(x), SortKey(s[i]))
                /\ \A i \in (k + 1)..Len(s) : ~StrLess(SortKey(s[i]), SortKey(x))}}

\* df.sort_values(by='Date').reset_index(drop=True): the default sort is not
\* stable, so rows with equal Date may come in any order; the set of the
\* orders it may produce
RECURSIVE SortValues(_)
SortValues(rows) ==
    IF rows = <<>> THEN {<<>>}
    ELSE UNION {InsertSorted(Head(rows), s) : s \in SortValues(Tail(rows))}

\* faulty variant: the legacy location is tried before the primary one
urls_to_try_swapped(year) ==
    <<[page |-> "fomchistorical", year |-> year],
      [page |-> "fomccalendars", year |-> year]>>
        \o (IF year >= RollingCalendarFrom
            THEN <<[page |-> "fomccalendars", year |-> 0]>>
            ELSE <<>>)

\* urls_to_try
urls_to_try(year) ==
    <<[page |-> "fomccalendars", year |-> year],
      [page |-> "fomchistorical", year |-> year]>>
        \o (IF year >= RollingCalendarFrom
            THEN <<[page |-> "fomccalendars", year |-> 0]>>
            ELSE <<>>)

-----------------------------------------------------------------------------
(* SpecScraper: FOMCLinkScraper.run(start_year, end_year)                  *)

\* most anchors on an index page drawn
MaxAnchors == 2

\* the (start_year, end_year) arguments drawn
YearRanges == {<<2013, 2014>>, <<2014, 2015>>, <<2019, 2019>>}

Dated(y3, y4, m1, m2, d1, d2) == <<"2", "0", y3, y4, m1, m2, d1, d2>>

AnchorMenu ==
    {\* a statement of 2014, relative and absolute, and a second document of
     \* the same day
     [text |-> <<" ", "Statement">>,
      href |-> <<"/newsevents/pressreleases/monetary">>
                  \o Dated("1", "4", "0", "1", "2", "9") \o <<"a.htm">>],
     [text |-> <<"Statement">>,
      href |-> <<base_url, "/newsevents/pressreleases/monetary">>
                  \o Dated("1", "4", "0", "1", "2", "9") \o <<"a.htm">>],
     [text |-> <<"Statement">>,
      href |-> <<"/newsevents/press/monetary/">>
                  \o Dated("1", "4", "0", "1", "2", "9") \o <<"b.htm">>],
     \* statements of 2015 and 2019
     [text |-> <<"HTML">>,
      href |-> <<"/newsevents/pressreleases/monetary">>
                  \o Dated("1", "5", "0", "1", "2", "8") \o <<"a.htm">>],
     [text |-> <<"Statement">>,
      href |-> <<"/newsevents/pressreleases/monetary">>
                  \o Dated("1", "9", "0", "1", "3", "0") \o <<"a.htm">>],
     \* a statement whose link holds no year
     [text |-> <<"Statement">>,
      href |-> <<"/boarddocs/press/general/", "default.htm">>],
     \* a statement whose link holds a date of the last century
     [text |-> <<"Statement">>,
      href |-> <<"/boarddocs/press/general/">>
                  \o <<"1", "9", "9", "9", "1", "0", "0", "5">> \o <<"a.htm">>],
     \* links the filter drops: excluded text, unknown path, no href
     [text |-> <<"Statement", " ", "PDF">>,
      href |-> <<"/newsevents/pressreleases/monetary">>
                  \o Dated("1", "4", "0", "1", "2", "9") \o <<"a.htm">>],
     [text |-> <<"Statement">>,
      href |-> <<"/monetarypolicy/files/monetary">>
                  \o Dated("1", "4", "0", "1", "2", "9") \o <<".htm">>],
     [text |-> <<"Statement">>, href |-> <<>>]}

IndexPages == SeqsUpTo(AnchorMenu, MaxAnchors)

\* a manifest file that does not exist, and one that holds rows
NoFile == [exists |-> FALSE, rows |-> <<>>]

CsvFile(rows) == [exists |-> TRUE, rows |-> rows]

ScraperIdle ==
    /\ spc = "idle"
    /\ year_range = <<0, 0>>
    /\ target_year = 0
    /\ attempt = 0
    /\ requested = <<>>
    /\ index_page = <<>>
    /\ all_data = <<>>
    /\ saved = NoFile

\* all_data = []; for year in range(start_year, end_year + 1)
ScraperStart ==
    /\ spc = "loop"
    /\ year_range \in YearRanges
    /\ target_year = year_range[1]
    /\ attempt = 0
    /\ requested = <<>>
    /\ index_page = <<>>
    /\ all_data = <<>>
    /\ saved = NoFile

\* get_links_for_year(year) is entered
BeginYear ==
    /\ UNCHANGED <<dateVars, engineVars, runVars>>
    /\ spc = "loop"
    /\ target_year <= year_range[2]
    /\ spc' = "fetch"
    /\ attempt' = 1
    /\ requested' = <<>>
    /\ UNCHANGED <<year_range, target_year, index_page, all_data, saved>>

\* one turn of the loop of _get_soup_with_fallback: the request succeeds
\* with status 200 and the page is parsed and returned
IndexFetched ==
    /\ UNCHANGED <<dateVars, engineVars, runVars>>
    /\ spc = "fetch"
    /\ attempt <= Len(urls_to_try(target_year))
    /\ requested' = Append(requested, urls_to_try(target_year)[attempt])
    /\ \E pg \in IndexPages : index_page' = pg
    /\ spc' = "scan"
    /\ UNCHANGED <<year_range, target_year, attempt, all_data, saved>>

\* one turn of the loop of _get_soup_with_fallback: another status, or a
\* RequestException (timeout, connection error); the next url is tried
IndexFailed ==
    /\ UNCHANGED <<dateVars, engineVars, runVars>>
    /\ spc = "fetch"
    /\ attempt <= Len(urls_to_try(target_year))
    /\ requested' = Append(requested, urls_to_try(target_year)[attempt])
    /\ attempt' = attempt + 1
    /\ UNCHANGED <<spc, year_range, target_year, index_page, all_data, saved>>

\* _get_soup_with_fallback returns None: get_links_for_year returns []
NoSoup ==
    /\ UNCHANGED <<dateVars, engineVars, runVars>>
    /\ spc = "fetch"
    /\ attempt > Len(urls_to_try(target_year))
    /\ spc' = "loop"
    /\ target_year' = target_year + 1
    /\ UNCHANGED <<year_range, attempt, requested, index_page, all_data, saved>>

\* the anchors are filtered and deduplicated; all_data.extend(year_data)
ScanAnchors ==
    /\ UNCHANGED <<dateVars, engineVars, runVars>>
    /\ spc = "scan"
    /\ all_data' = all_data \o get_links_for_year(index_page, target_year)
    /\ spc' = "loop"
    /\ target_year' = target_year + 1
    /\ UNCHANGED <<year_range, attempt, requested, index_page, saved>>

\* after the loop: drop duplicates, sort by Date, save_data(df)
SaveManifest ==
    /\ UNCHANGED <<dateVars, engineVars, runVars>>
    /\ spc = "loop"
    /\ target_year > year_range[2]
    /\ all_data # <<>>
    /\ \E df \in SortValues(DropDuplicateUrls(all_data)) : saved' = CsvFile(df)
    /\ spc' = "saved"
    /\ UNCHANGED <<year_range, target_year, attempt, requested, index_page, all_data>>

\* after the loop: df.empty, "Scraper failed."
ScraperFailed ==
    /\ UNCHANGED <<dateVars, engineVars, runVars>>
    /\ spc = "loop"
    /\ target_year > year_range[2]
    /\ all_data = <<>>
    /\ spc' = "failed"
    /\ UNCHANGED <<year_range, target_year, attempt, requested, index_page,
                   all_data, saved>>

ScraperNext ==
    \/ BeginYear
    \/ IndexFetched
    \/ IndexFailed
    \/ NoSoup
    \/ ScanAnchors
    \/ SaveManifest
    \/ ScraperFailed

-----------------------------------------------------------------------------
(* 02_fomc_text_extractor.py : run                                         *)

\* extract_text_from_url for a given answer of the server: "" on a status
\* other than 200 and on any exception
extract_text_from_url(r) ==
    IF r.outcome = "ok" THEN ExtractFromPage(r.page).text ELSE EmptyText

\* "unknown" in date_str
ContainsUnknown(str) ==
    \E i \in 1..Len(str) :
        /\ i + 6 <= Len(str)
        /\ SubSeq(str, i, i + 6) = <<"u", "n", "k", "n", "o", "w", "n">>

DotTxt == <<".", "t", "x", "t">>

\* the file name of the row at index idx
Filename(row, idx) ==
    LET ds == extract_date_from_url(row.URL, row.Year)
    IN  IF ContainsUnknown(ds)
        THEN IntToStr(row.Year) \o <<"_">> \o IntToStr(idx) \o DotTxt
        ELSE ds \o DotTxt

\* faulty variant: the idempotency check never finds the file
PathExistsNever(folder, name) == FALSE

\* os.path.exists(filepath)
PathExists(folder, name) == name \in DOMAIN folder

\* the folder with file name holding contents
WithFile(folder, name, contents) ==
    [f \in DOMAIN folder \cup {name} |-> IF f = name THEN contents ELSE folder[f]]

\* len(text) < 100: a warning is printed
QualityLimit == 100

-----------------------------------------------------------------------------
(* Spec: FOMCTextExtractor.run over a manifest, and its re-invocations     *)

\* most rows of a manifest drawn
MaxRows == 3

\* most invocations of run() in one behaviour
MaxRuns == 2

Url(path, digits, tail) == <<base_url, path>> \o digits \o <<tail>>

\* the rows of the manifests drawn: two documents of one day, two links
\* without a date, and a link whose 8 digits do not start with 20
ManifestRows ==
    {[Year |-> 2008,
      URL |-> Url("/newsevents/pressreleases/monetary",
                  <<"2", "0", "0", "8", "1", "0", "2", "8">>, "a.htm")],
     [Year |-> 2008,
      URL |-> Url("/newsevents/press/monetary/",
                  <<"2", "0", "0", "8", "1", "0", "2", "8">>, "b.htm")],
     [Year |-> 2003,
      URL |-> Url("/boarddocs/press/general/", <<>>, "default.htm")],
     [Year |-> 2003,
      URL |-> Url("/boarddocs/press/monetary/", <<>>, "default.htm")],
     [Year |-> 2000,
      URL |-> Url("/boarddocs/press/general/",
                  <<"1", "9", "9", "9", "1", "0", "0", "5">>, "a.htm")]}

\* a manifest as the scraper saves it: the Date column filled, no URL twice,
\* rows in Date order
Manifests ==
    {m \in SeqsUpTo({[Date |-> extract_full_date(r.URL), Year |-> r.Year, URL |-> r.URL] :
                        r \in ManifestRows}, MaxRows) :
        /\ m # <<>>
        /\ \A i, j \in 1..Len(m) : i < j =>
              /\ m[i].URL # m[j].URL
              /\ ~StrLess(m[j].Date, m[i].Date)}

\* what the server may answer to the request for a document
RunResponses ==
    {[outcome |-> "exception", page |-> NoPage],
     [outcome |-> "http_error", page |-> NoPage],
     [outcome |-> "ok",
      page |-> <<[tag |-> "div", id |-> "article", cls |-> "none", parent |-> 0,
                  text |-> T300]>>],
     [outcome |-> "ok",
      page |-> <<[tag |-> "td", id |-> "none", cls |-> "none", parent |-> 0,
                  text |-> <<Run("s", 40), Run("\n", 1)>>]>>]}

NoFolder == [f \in {} |-> EmptyText]

NoSnapshot == [taken |-> FALSE, folder |-> NoFolder]

Snapshot(folder) == [taken |-> TRUE, folder |-> folder]

RunIdle ==
    /\ pc = "idle"
    /\ input_csv = NoFile
    /\ index = 0
    /\ text = EmptyText
    /\ fs = NoFolder
    /\ run_no = 0
    /\ fetches = 0
    /\ log = <<>>
    /\ intended = NoFolder
    /\ prev_end = NoSnapshot

\* the extractor is constructed and run() is called for the first time; the
\* statements folder is new
RunStart ==
    /\ pc = "start"
    /\ input_csv \in {CsvFile(m) : m \in Manifests} \cup {NoFile}
    /\ index = 0
    /\ text = EmptyText
    /\ fs = NoFolder
    /\ run_no = 1
    /\ fetches = 0
    /\ log = <<>>
    /\ intended = NoFolder
    /\ prev_end = NoSnapshot

\* 1. Validation: the manifest is missing, CRITICAL ERROR, return
ManifestMissing ==
    /\ pc = "start"
    /\ ~input_csv.exists
    /\ pc' = "returned"
    /\ UNCHANGED <<input_csv, index, text, fs, run_no, fetches, log, intended, prev_end>>
    /\ UNCHANGED <<dateVars, engineVars, scraperVars>>

\* df = pd.read_csv(self.input_csv)
LoadManifest ==
    /\ pc = "start"
    /\ input_csv.exists
    /\ pc' = "loop"
    /\ index' = 0
    /\ UNCHANGED <<input_csv, text, fs, run_no, fetches, log, intended, prev_end>>
    /\ UNCHANGED <<dateVars, engineVars, scraperVars>>

\* an iteration whose file exists: success_count += 1; continue
SkipExisting ==
    /\ pc = "loop"
    /\ index < Len(input_csv.rows)
    /\ PathExists(fs, Filename(input_csv.rows[index + 1], index))
    /\ log' = Append(log, <<"skip", index>>)
    /\ index' = index + 1
    /\ UNCHANGED <<pc, input_csv, text, fs, run_no, fetches, intended, prev_end>>
    /\ UNCHANGED <<dateVars, engineVars, scraperVars>>

\* an iteration whose file does not exist: "Processing ..."
BeginItem ==
    /\ pc = "loop"
    /\ index < Len(input_csv.rows)
    /\ ~PathExists(fs, Filename(input_csv.rows[index + 1], index))
    /\ pc' = "extract"
    /\ UNCHANGED <<input_csv, index, text, fs, run_no, fetches, log, intended, prev_end>>
    /\ UNCHANGED <<dateVars, engineVars, scraperVars>>

\* faulty variant: a text under the quality limit is dropped, the iteration
\* goes on to the next row without saving
ExtractItemDropShort ==
    /\ pc = "extract"
    /\ \E r \in RunResponses :
          LET t == extract_text_from_url(r)
          IN  /\ text' = t
              /\ log' = log \o <<<<"fetch", index, t>>>>
                            \o (IF TextLen(t) < QualityLimit
                                THEN <<<<"warning", index>>>>
                                ELSE <<>>)
              /\ IF TextLen(t) < QualityLimit
                 THEN pc' = "loop" /\ index' = index + 1
                 ELSE pc' = "open" /\ index' = index
    /\ fetches' = fetches + 1
    /\ UNCHANGED <<input_csv, fs, run_no, intended, prev_end>>
    /\ UNCHANGED <<dateVars, engineVars, scraperVars>>

\* text = self.extract_text_from_url(url), and the quality check, which
\* only prints; the log keeps the text that was returned
ExtractItem ==
    /\ pc = "extract"
    /\ \E r \in RunResponses :
          LET t == extract_text_from_url(r)
          IN  /\ text' = t
              /\ log' = log \o <<<<"fetch", index, t>>>>
                            \o (IF TextLen(t) < QualityLimit
                                THEN <<<<"warning", index>>>>
                                ELSE <<>>)
    /\ fetches' = fetches + 1
    /\ pc' = "open"
    /\ UNCHANGED <<input_csv, index, fs, run_no, intended, prev_end>>
    /\ UNCHANGED <<dateVars, engineVars, scraperVars>>

\* open(filepath, "w", encoding="utf-8"): the file is created empty
OpenArtifact ==
    /\ pc = "open"
    /\ LET name == Filename(input_csv.rows[index + 1], index)
       IN  /\ fs' = WithFile(fs, name, EmptyText)
           /\ intended' = WithFile(intended, name, text)
    /\ pc' = "write"
    /\ UNCHANGED <<input_csv, index, text, run_no, fetches, log, prev_end>>
    /\ UNCHANGED <<dateVars, engineVars, scraperVars>>

\* f.write(text) and the close of the with block
WriteArtifact ==
    /\ pc = "write"
    /\ fs' = WithFile(fs, Filename(input_csv.rows[index + 1], index), text)
    /\ log' = Append(log, <<"write", index>>)
    /\ pc' = "sleep"
    /\ UNCHANGED <<input_csv, index, text, run_no, fetches, intended, prev_end>>
    /\ UNCHANGED <<dateVars, engineVars, scraperVars>>

\* open or write raises OSError (folder not writable, disk full): nothing
\* in run catches it, run ends with the exception
WriteFails ==
    /\ pc \in {"open", "write"}
    /\ pc' = "crashed"
    /\ UNCHANGED <<input_csv, index, text, fs, run_no, fetches, log, intended, prev_end>>
    /\ UNCHANGED <<dateVars, engineVars, scraperVars>>

\* faulty variant: the iteration ends without the delay
RateLimitNoDelay ==
    /\ pc = "sleep"
    /\ index' = index + 1
    /\ pc' = "loop"
    /\ UNCHANGED <<input_csv, text, fs, run_no, fetches, log, intended, prev_end>>
    /\ UNCHANGED <<dateVars, engineVars, scraperVars>>

\* success_count += 1; time.sleep(random.uniform(0.3, 0.6)); next iteration
RateLimit ==
    /\ pc = "sleep"
    /\ log' = Append(log, <<"sleep", index>>)
    /\ index' = index + 1
    /\ pc' = "loop"
    /\ UNCHANGED <<input_csv, text, fs, run_no, fetches, intended, prev_end>>
    /\ UNCHANGED <<dateVars, engineVars, scraperVars>>

\* the loop is over: "Extraction Complete."
Complete ==
    /\ pc = "loop"
    /\ index >= Len(input_csv.rows)
    /\ pc' = "done"
    /\ UNCHANGED <<input_csv, index, text, fs, run_no, fetches, log, intended, prev_end>>
    /\ UNCHANGED <<dateVars, engineVars, scraperVars>>

\* the user interrupts the run (KeyboardInterrupt is no Exception: nothing
\* catches it)
Interrupt ==
    /\ pc \in {"start", "loop", "extract", "open", "write", "sleep"}
    /\ pc' = "interrupted"
    /\ UNCHANGED <<input_csv, index, text, fs, run_no, fetches, log, intended, prev_end>>
    /\ UNCHANGED <<dateVars, engineVars, scraperVars>>

\* run() is invoked again on the same manifest and folder
Reinvoke ==
    /\ pc \in {"done", "returned", "crashed", "interrupted"}
    /\ run_no < MaxRuns
    /\ run_no' = run_no + 1
    /\ prev_end' = IF pc \in {"done", "returned"} THEN Snapshot(fs) ELSE NoSnapshot
    /\ pc' = "start"
    /\ index' = 0
    /\ text' = EmptyText
    /\ fetches' = 0
    /\ log' = <<>>
    /\ UNCHANGED <<input_csv, fs, intended>>
    /\ UNCHANGED <<dateVars, engineVars, scraperVars>>

Next ==
    \/ ManifestMissing
    \/ LoadManifest
    \/ SkipExisting
    \/ BeginItem
    \/ ExtractItem
    \/ OpenArtifact
    \/ WriteArtifact
    \/ WriteFails
    \/ RateLimit
    \/ Complete
    \/ Interrupt
    \/ Reinvoke

-----------------------------------------------------------------------------
(* SpecDate: the two date normalizers applied to an arbitrary locator      *)

\* longest locator drawn
MaxUrlLen == 10

DateAlphabet == {"2", "0", "/"}

\* the Year column handed to extract_date_from_url
DateYears == {2008}

DateStart ==
    /\ dpc = "call"
    /\ durl \in SeqsUpTo(DateAlphabet, MaxUrlLen)
    /\ full_date = <<>>
    /\ date_str = <<>>

\* the date normalizers not in use
DateIdle ==
    /\ dpc = "idle"
    /\ durl = <<>>
    /\ full_date = <<>>
    /\ date_str = <<>>

\* the extraction engine not in use
EngineIdle ==
    /\ epc = "idle"
    /\ response = [outcome |-> "none", page |-> NoPage]
    /\ soup = {}
    /\ result = EmptyText
    /\ strategy = "none"

DateInit == DateStart /\ EngineIdle /\ ScraperIdle /\ RunIdle

\* sortable_date = self._extract_full_date(full_url)
CallExtractFullDate ==
    /\ dpc = "call"
    /\ full_date' = extract_full_date(durl)
    /\ dpc' = "called_scraper"
    /\ UNCHANGED <<durl, date_str, engineVars, scraperVars, runVars>>

\* date_str = self.extract_date_from_url(url, year)
CallExtractDateFromUrl ==
    /\ dpc = "called_scraper"
    /\ \E y \in DateYears : date_str' = extract_date_from_url(durl, y)
    /\ dpc' = "done"
    /\ UNCHANGED <<durl, full_date, engineVars, scraperVars, runVars>>

DateNext == CallExtractFullDate \/ CallExtractDateFromUrl

SpecDate == DateInit /\ [][DateNext]_vars

-----------------------------------------------------------------------------
(* Spec                                                                    *)

Init == RunStart /\ DateIdle /\ EngineIdle /\ ScraperIdle

Spec == Init /\ [][Next]_vars

-----------------------------------------------------------------------------
(* SpecEngine                                                              *)

EngineInit == EngineStart /\ DateIdle /\ ScraperIdle /\ RunIdle

SpecEngine == EngineInit /\ [][EngineNext]_vars

-----------------------------------------------------------------------------
(* SpecScraper                                                             *)

ScraperInit == ScraperStart /\ DateIdle /\ EngineIdle /\ RunIdle

SpecScraper == ScraperInit /\ [][ScraperNext]_vars

-----------------------------------------------------------------------------
(* Properties of the date normalizer                                       *)

\* the 8 symbols from position i on are digits and the first two are "20"
IsDatedAt(url, i) ==
    /\ i >= 1
    /\ i + 7 <= Len(url)
    /\ SubSeq(url, i, i + 1) = <<"2", "0">>
    /\ \A k \in i..(i + 7) : url[k] \in Digits

\* YYYY-MM-DD without its two dashes
Undashed(d) == SubSeq(d, 1, 4) \o SubSeq(d, 6, 7) \o SubSeq(d, 9, 10)

\* C10: _extract_full_date returns a value for every locator; when the
\* locator holds an 8-digit substring that starts with "20", the value is the
\* leftmost such substring written YYYY-MM-DD, and otherwise it is the
\* sentinel "Unknown".
C10_FullDateLeftmostMatch ==
    dpc \in {"called_scraper", "done"} =>
        IF \E i \in 1..Len(durl) : IsDatedAt(durl, i)
        THEN \E i \in 1..Len(durl) :
                /\ IsDatedAt(durl, i)
                /\ \A j \in 1..(i - 1) : ~IsDatedAt(durl, j)
                /\ Len(full_date) = 10
                /\ full_date[5] = "-"
                /\ full_date[8] = "-"
                /\ Undashed(full_date) = SubSeq(durl, i, i + 7)
        ELSE full_date = Unknown

\* a locator with two 8-digit substrings that start with "20" and differ
C10_Witness ==
    /\ dpc = "done"
    /\ \E i, j \in 1..Len(durl) :
          /\ i < j
          /\ IsDatedAt(durl, i)
          /\ IsDatedAt(durl, j)
          /\ SubSeq(durl, i, i + 7) # SubSeq(durl, j, j + 7)
          /\ Undashed(full_date) = SubSeq(durl, i, i + 7)

-----------------------------------------------------------------------------
(* Properties of extract_text_from_url                                     *)

\* no two consecutive whitespace characters, none at either end
IsNormalized(t) ==
    /\ \A i \in 1..Len(t) : t[i].c \in Whitespace => t[i].n = 1
    /\ \A i \in 1..(Len(t) - 1) :
          ~(t[i].c \in Whitespace /\ t[i + 1].c \in Whitespace)
    /\ t # <<>> => (t[1].c \notin Whitespace /\ t[Len(t)].c \notin Whitespace)

\* C6: the string extract_text_from_url returns has no two consecutive
\* whitespace characters and no leading or trailing whitespace, whichever
\* strategy or failure path produced it.
C6_ResultNormalized == epc = "returned" => IsNormalized(result)

\* a strategy answered with a text that keeps inner spaces, from a page text
\* that had whitespace at an end
C6_Witness ==
    /\ epc = "returned"
    /\ strategy = "A"
    /\ \E i \in 1..Len(result) : result[i].c = " "
    /\ \E j \in soup :
          /\ response.page[j].text # <<>>
          /\ response.page[j].text[Len(response.page[j].text)].c \in Whitespace

\* element i stands inside (or is) an element the pre-cleaning removes
RECURSIVE InsideStripped(_, _)
InsideStripped(page, i) ==
    IF i = 0 THEN FALSE
    ELSE page[i].tag \in StrippedTags \/ InsideStripped(page, page[i].parent)

Remaining(page) == {i \in 1..Len(page) : ~InsideStripped(page, i)}

\* the priority of a structural container: the ids in order, then the class
StructuralRank(el) ==
    IF el.tag # "div" THEN 0
    ELSE IF el.id = "article" THEN 1
    ELSE IF el.id = "leftText" THEN 2
    ELSE IF el.id = "content" THEN 3
    ELSE IF el.cls = "col-md-8" THEN 4
    ELSE 0

Structurals(page) == {i \in Remaining(page) : StructuralRank(page[i]) # 0}

\* the td and div elements whose collapsed text has at least 200 characters
Qualifying(page) ==
    {i \in Remaining(page) :
        /\ page[i].tag \in {"td", "div"}
        /\ TextLen(clean_text(get_text(page, Remaining(page), i))) >= 200}

\* C7: the strategies answer in the order A, B, C.  With a structural
\* container on the page its text is returned, the container being chosen by
\* id article, leftText, content, then class col-md-8; Strategy B is reached
\* only without a structural match, Strategy C only when B has no candidate.
C7_StrategyChainOrder ==
    LET page == response.page
        S == Structurals(page)
    IN  /\ epc \in {"strategyB", "strategyC"} => S = {}
        /\ epc = "strategyC" => Qualifying(page) = {}
        /\ (epc = "returned" /\ strategy \in {"A", "B", "C"}) =>
              IF S # {}
              THEN \E d \in S :
                      /\ \A o \in S :
                            \/ StructuralRank(page[d]) < StructuralRank(page[o])
                            \/ /\ StructuralRank(page[d]) = StructuralRank(page[o])
                               /\ d <= o
                      /\ strategy = "A"
                      /\ result = clean_text(get_text(page, Remaining(page), d))
              ELSE IF Qualifying(page) # {}
                   THEN strategy = "B"
                   ELSE /\ strategy = "C"
                        /\ result = clean_text(get_text(page, Remaining(page), 0))

\* a structural container later in the page than a larger generic div, and a
\* lower-priority container before it: the container's text is returned
C7_Witness ==
    /\ epc = "returned"
    /\ strategy = "A"
    /\ Len(response.page) = 2
    /\ response.page[1].tag = "div"
    /\ response.page[1].id = "none"
    /\ response.page[1].cls = "none"
    /\ response.page[1].text = T500
    /\ response.page[2].id = "article"
    /\ response.page[2].text = T300
    /\ response.page[2].parent = 0
    /\ result = clean_text(T300)

\* C8: what Strategy B returns is the collapsed text of a td or div element,
\* of at least 200 characters, and no td or div element has a longer
\* collapsed text; an element with a collapsed text under 200 characters is
\* not selected, and when no element qualifies Strategy B returns nothing.
C8_DensitySelection ==
    LET page == response.page
        R == Remaining(page)
    IN  /\ (epc = "returned" /\ strategy = "B") =>
              /\ TextLen(result) >= 200
              /\ \E e \in Qualifying(page) :
                    /\ result = clean_text(get_text(page, R, e))
                    /\ \A o \in Qualifying(page) :
                          TextLen(clean_text(get_text(page, R, o))) <= TextLen(result)
        /\ (epc = "returned" /\ strategy \in {"A", "B", "C"}
                /\ Structurals(page) = {} /\ Qualifying(page) # {}) =>
              strategy = "B"
        /\ (epc = "returned" /\ strategy \in {"A", "B", "C"}
                /\ Qualifying(page) = {}) =>
              strategy # "B"

\* blocks of 300 and 500 characters side by side: the 500 one is returned
C8_Witness ==
    /\ epc = "returned"
    /\ strategy = "B"
    /\ Len(response.page) = 2
    /\ response.page[1].text = T300
    /\ response.page[2].text = T500
    /\ response.page[2].parent = 0
    /\ TextLen(result) = 500

\* a td of 250 characters and a div of 1800: the 1800 one is returned
C8_WitnessCell ==
    /\ epc = "returned"
    /\ strategy = "B"
    /\ Len(response.page) = 2
    /\ response.page[1].tag = "td"
    /\ response.page[1].text = T250
    /\ response.page[2].tag = "div"
    /\ response.page[2].text = T1800
    /\ response.page[2].parent = 0
    /\ result = clean_text(T1800)

\* a lone block of 150 characters is left to Strategy C
C8_WitnessShort ==
    /\ epc = "returned"
    /\ strategy = "C"
    /\ Len(response.page) = 1
    /\ response.page[1].tag = "td"
    /\ response.page[1].text = T150

-----------------------------------------------------------------------------
(* Properties of the manifest FOMCLinkScraper.run saves                    *)

\* C4: in the saved manifest no two rows have the same URL, whatever the
\* index pages held and also when a locator was found under several years.
C4_ManifestUrlsUnique ==
    spc = "saved" =>
        \A i, j \in 1..Len(saved.rows) :
            i # j => saved.rows[i].URL # saved.rows[j].URL

\* a manifest was saved after one locator had been collected under two years
C4_Witness ==
    /\ spc = "saved"
    /\ saved.exists
    /\ \E i, j \in 1..Len(all_data) :
          /\ all_data[i].URL = all_data[j].URL
          /\ all_data[i].Year # all_data[j].Year

\* C5: the rows of the saved manifest are in non-decreasing order of the Date
\* column compared as strings, "Unknown" taking the place its characters
\* give it.
C5_ManifestSortedByDate ==
    spc = "saved" =>
        \A i, j \in 1..Len(saved.rows) :
            i < j => ~StrLess(saved.rows[j].Date, saved.rows[i].Date)

\* a saved manifest whose rows were collected in another order: the undated
\* link first, which is saved last
C5_Witness ==
    /\ spc = "saved"
    /\ Len(saved.rows) >= 2
    /\ all_data[1].Date = Unknown
    /\ saved.rows[1].Date # Unknown
    /\ saved.rows[Len(saved.rows)].Date = Unknown

-----------------------------------------------------------------------------
(* Properties of FOMCTextExtractor.run                                     *)

\* C1: an invocation of run() that follows one that returned normally, the
\* folder being as that one left it, never calls extract_text_from_url and
\* leaves every artifact with the contents it had.
C1_SecondRunIdempotent ==
    (run_no >= 2 /\ prev_end.taken) => (fetches = 0 /\ fs = prev_end.folder)

\* the second invocation ran to its end over a manifest of several rows
\* whose artifacts the first invocation had written
C1_Witness ==
    /\ run_no = 2
    /\ prev_end.taken
    /\ pc = "done"
    /\ input_csv.exists
    /\ Len(input_csv.rows) >= 2
    /\ Len(log) = Len(input_csv.rows)
    /\ \A k \in 1..Len(log) : log[k][1] = "skip"
    /\ \E f \in DOMAIN fs : fs[f] # EmptyText

\* C2: after an interruption every file at an artifact path holds the whole
\* text that was extracted for it: the artifacts written before are
\* unchanged and none is truncated.
C2_InterruptLeavesNoPartialArtifact ==
    pc = "interrupted" => \A f \in DOMAIN fs : fs[f] = intended[f]

\* C3: a failure while one record is processed does not end the run: a run
\* that has ended has gone through every record, unless the manifest file
\* was missing.
C3_PerItemErrorsContained ==
    pc \in {"done", "returned", "crashed"} =>
        (~input_csv.exists \/ index = Len(input_csv.rows))

\* C9: the records of a manifest get pairwise distinct file names, and in a
\* run that starts with a new folder no record is skipped for the artifact
\* of another record.
C9_OneArtifactPerRecord ==
    (run_no = 1 /\ pc = "done" /\ input_csv.exists) =>
        /\ \A i, j \in 1..Len(input_csv.rows) :
              i # j => Filename(input_csv.rows[i], i - 1)
                          # Filename(input_csv.rows[j], j - 1)
        /\ \A k \in 1..Len(log) : log[k][1] # "skip"

\* the entries of the log of this invocation that record a call of
\* extract_text_from_url
FetchEntries == {k \in 1..Len(log) : log[k][1] = "fetch"}

\* the file name of the row the iteration with index i works on
NameAt(i) == Filename(input_csv.rows[i + 1], i)

\* C11: every iteration that called extract_text_from_url and went on to the
\* next row has left a file at the row's path whose contents are exactly
\* the text returned, also when the text has fewer than 100 characters and a
\* warning was printed; when run() has returned normally a file exists at
\* the path of every row.
C11_NoFetchedItemDropped ==
    /\ \A k \in FetchEntries :
          log[k][2] < index =>
              /\ NameAt(log[k][2]) \in DOMAIN fs
              /\ fs[NameAt(log[k][2])] = log[k][3]
    /\ (pc = "done" /\ input_csv.exists) =>
          \A i \in 0..(Len(input_csv.rows) - 1) : NameAt(i) \in DOMAIN fs

\* a run went through its manifest after one text of fewer than 100
\* characters, not empty, and one longer text were returned: both are on
\* disk as returned and the warning was printed for the short one
C11_Witness ==
    /\ pc = "done"
    /\ \E k \in FetchEntries :
          /\ TextLen(log[k][3]) > 0
          /\ TextLen(log[k][3]) < QualityLimit
          /\ \E w \in 1..Len(log) : log[w] = <<"warning", log[k][2]>>
          /\ fs[NameAt(log[k][2])] = log[k][3]
    /\ \E k \in FetchEntries :
          /\ TextLen(log[k][3]) >= QualityLimit
          /\ fs[NameAt(log[k][2])] = log[k][3]

\* a failed request gives the empty string, and an empty artifact is saved
C11_WitnessEmpty ==
    /\ pc = "done"
    /\ \E k \in FetchEntries :
          /\ log[k][3] = EmptyText
          /\ fs[NameAt(log[k][2])] = EmptyText

-----------------------------------------------------------------------------
(* The date of a manifest row and the file name of its artifact            *)

\* <year>_<index>.txt, the name of a row without a date
FallbackName(row, idx) == IntToStr(row.Year) \o <<"_">> \o IntToStr(idx) \o DotTxt

\* C12: for every row of the manifest the scraper saved, the file name the
\* extractor derives from the row's URL is the row's Date followed by .txt
\* when the Date is a date, and it is the fallback name <year>_<index>.txt
\* exactly when the Date is the sentinel "Unknown".
C12_ArtifactDateIsManifestDate ==
    spc = "saved" =>
        \A i \in 1..Len(saved.rows) :
            LET row == saved.rows[i]
                name == Filename(row, i - 1)
            IN  /\ row.Date # Unknown => name = row.Date \o DotTxt
                /\ (name = FallbackName(row, i - 1)) <=> (row.Date = Unknown)

-----------------------------------------------------------------------------
(* Properties of get_links_for_year                                        *)

\* the index locations of a period in the order of the claim: the primary
\* one, the legacy one, and from 2019 on the rolling calendar
PrimaryLocation(y) == [page |-> "fomccalendars", year |-> y]
SecondaryLocation(y) == [page |-> "fomchistorical", year |-> y]
RollingLocation == [page |-> "fomccalendars", year |-> 0]

ExpectedLocations(y) ==
    <<PrimaryLocation(y), SecondaryLocation(y)>>
        \o (IF y >= 2019 THEN <<RollingLocation>> ELSE <<>>)

\* C13: the index locations of a period are requested in the order primary,
\* secondary, rolling calendar (the last only from 2019 on), each only
\* after the one before it failed; once a request succeeds its page is the
\* one scanned and no further location is requested for the period; when
\* every location failed the period adds no record and run goes on with the
\* next period.
C13_IndexFallbackOrder ==
    [][/\ (spc = "loop" /\ spc' = "fetch") => requested' = <<>>
       /\ (spc = "fetch" /\ requested' # requested) =>
             /\ Len(requested) < Len(ExpectedLocations(target_year))
             /\ requested' = SubSeq(ExpectedLocations(target_year), 1, Len(requested) + 1)
       /\ (spc = "fetch" /\ spc' = "scan") =>
             /\ requested' # requested
             /\ index_page' \in IndexPages
       /\ (spc = "fetch" /\ spc' = "fetch") =>
             /\ requested' # requested
             /\ index_page' = index_page
       /\ spc = "scan" =>
             /\ requested' = requested
             /\ spc' = "loop"
             /\ all_data' = all_data \o get_links_for_year(index_page, target_year)
       /\ (spc = "fetch" /\ spc' \notin {"fetch", "scan"}) =>
             /\ requested = ExpectedLocations(target_year)
             /\ requested' = requested
             /\ all_data' = all_data
             /\ spc' = "loop"
             /\ target_year' = target_year + 1]_vars

\* the rolling calendar answered for 2019 after the two other locations
\* had failed
C13_Witness ==
    /\ spc = "scan"
    /\ target_year = 2019
    /\ requested = <<PrimaryLocation(2019), SecondaryLocation(2019), RollingLocation>>
    /\ index_page # <<>>

\* every location of 2014 failed and the run went on: 2015 was scanned and
\* the manifest saved
C13_WitnessSoftFailure ==
    /\ spc = "saved"
    /\ year_range = <<2014, 2015>>
    /\ requested = <<PrimaryLocation(2015)>>
    /\ \A i \in 1..Len(all_data) : all_data[i].Year = 2015
    /\ index_page # <<>>
    /\ \A i \in 1..Len(index_page) : KeepsAnchor(index_page[i], 2015)

\* the anchors of the page that is being scanned
Anchors == {index_page[i] : i \in 1..Len(index_page)}

\* the records the scan of the page adds (in the step that scans it)
YearData == SubSeq(all_data', Len(all_data) + 1, Len(all_data'))

\* the inclusion predicate: the visible text holds the keyword, or the link
\* has the form of a statement release
Included(a) ==
    \/ Has(a.text, "statement")
    \/ (Has(a.href, "monetary") /\ Has(a.href, "pressreleases") /\ Has(a.href, "a.htm"))

\* the visible text holds an exclusion keyword
Excluded(a) == \E k \in exclusion_keywords : Has(a.text, k)

\* the link holds one of the known document paths
OnKnownPath(a) == \E pth \in valid_paths : Has(a.href, pth)

\* the absolute locator of the link of an anchor
FullUrl(a) == IF StartsWithSlash(a.href) THEN <<base_url>> \o a.href ELSE a.href

\* record r was made from anchor a
MadeFrom(r, a) == r.URL = FullUrl(a) /\ r.Date_Description = StripBlanks(a.text)

\* C14: every record the scan of an index page returns was made from an
\* anchor of the page that satisfies the inclusion predicate, whose text
\* holds no exclusion keyword and whose link holds a known document path;
\* no record is made from an anchor whose text holds an exclusion keyword,
\* also when the anchor satisfies inclusion.
C14_LinkFilter ==
    [][spc = "scan" =>
          /\ \A k \in 1..Len(YearData) :
                \E a \in Anchors :
                    /\ MadeFrom(YearData[k], a)
                    /\ Included(a)
                    /\ ~Excluded(a)
                    /\ OnKnownPath(a)
          /\ \A a \in Anchors :
                Excluded(a) => \A k \in 1..Len(YearData) : ~MadeFrom(YearData[k], a)]_vars

\* a page was scanned that held a statement release and the same link with
\* a text that satisfies inclusion and holds an exclusion keyword: the
\* first gave the only record
C14_Witness ==
    /\ spc = "loop"
    /\ Len(requested) = attempt
    /\ Len(all_data) = 1
    /\ all_data[1].Year = target_year - 1
    /\ \E a, b \in Anchors :
          /\ MadeFrom(all_data[1], a)
          /\ Included(b)
          /\ Excluded(b)
          /\ OnKnownPath(b)
          /\ FullUrl(b) = FullUrl(a)
          /\ ~MadeFrom(all_data[1], b)

\* the year parsed from the link of an anchor, 0 when there is none
LinkYear(a) == extract_year_from_url(a.href)

\* anchor a passes every filter that does not look at the year
PassesOtherFilters(a) ==
    a.href # <<>> /\ Included(a) /\ ~Excluded(a) /\ OnKnownPath(a)

\* the scan of the page returns no record for the link of anchor a
Discarded(a) == \A k \in 1..Len(YearData) : YearData[k].URL # FullUrl(a)

\* the rolling calendar location is among those tried for period y
RollingTried(y) ==
    \E k \in 1..Len(urls_to_try(y)) : urls_to_try(y)[k] = RollingLocation

\* no record returned for a period has a link with a year other than the
\* period
NoForeignYear ==
    \A k \in 1..Len(YearData) :
        extract_year_from_url(YearData[k].URL) \in {0, target_year}

\* C15 as claimed: no record returned has a link with a parseable year other
\* than the period, and a link without a parseable year that passes the
\* other filters is discarded exactly for the periods for which the rolling
\* calendar location is tried.
C15_PeriodConsistency ==
    [][spc = "scan" =>
          /\ NoForeignYear
          /\ \A a \in Anchors :
                (PassesOtherFilters(a) /\ LinkYear(a) = 0) =>
                    (Discarded(a) <=> RollingTried(target_year))]_vars

\* C15 as amended: no record returned has a link with a parseable year other
\* than the period, and a link without a parseable year that passes the
\* other filters is discarded exactly for the periods from 2015 on, a
\* threshold of its own, earlier than the one of the rolling calendar (2019).
C15_PeriodConsistencyFrom2015 ==
    [][spc = "scan" =>
          /\ NoForeignYear
          /\ \A a \in Anchors :
                (PassesOtherFilters(a) /\ LinkYear(a) = 0) =>
                    (Discarded(a) <=> target_year >= 2015)
          /\ (target_year \in 2015..2018) => ~RollingTried(target_year)]_vars

\* the run over 2014 and 2015 found a link without a year on both pages and
\* a link of 2014 on the page of 2015: the first was kept for 2014 only,
\* the second not at all
C15_Witness ==
    /\ spc = "loop"
    /\ year_range = <<2014, 2015>>
    /\ target_year = 2016
    /\ Len(requested) = attempt
    /\ \E a, b \in Anchors :
          /\ PassesOtherFilters(a)
          /\ LinkYear(a) = 0
          /\ PassesOtherFilters(b)
          /\ LinkYear(b) = 2014
          /\ \E k \in 1..Len(all_data) :
                MadeFrom(all_data[k], a) /\ all_data[k].Year = 2014
          /\ \A k \in 1..Len(all_data) :
                /\ all_data[k].Year # 2015
                /\ ~MadeFrom(all_data[k], b)

-----------------------------------------------------------------------------
(* Pacing of the requests of FOMCTextExtractor.run                         *)

\* C16: within one invocation of run() the calls of extract_text_from_url
\* come one after the other, one per row at most and never while another is
\* pending; every iteration that made the call and went on to the next row
\* slept before doing so, hence a sleep lies between any two calls; an
\* iteration that was skipped for an existing artifact did not sleep.
C16_RequestPacing ==
    /\ Cardinality(FetchEntries) = fetches
    /\ \A k, m \in FetchEntries :
          k < m =>
              /\ log[k][2] < log[m][2]
              /\ \E d \in (k + 1)..(m - 1) : log[d] = <<"sleep", log[k][2]>>
    /\ \A k \in FetchEntries :
          log[k][2] < index => \E d \in (k + 1)..Len(log) : log[d] = <<"sleep", log[k][2]>>
    /\ pc = "extract" => \A k \in FetchEntries : log[k][2] < index
    /\ \A d \in 1..Len(log) :
          log[d][1] = "sleep" =>
              /\ \E k \in FetchEntries : k < d /\ log[k][2] = log[d][2]
              /\ \A j \in 1..Len(log) : log[j] # <<"skip", log[d][2]>>
    /\ \A j \in 1..Len(log) :
          (log[j][1] = "skip" /\ j < Len(log)) => log[j + 1][1] # "sleep"

\* a run made two calls with a skipped row between them: one sleep after
\* each call, none for the skipped row
C16_Witness ==
    /\ pc = "done"
    /\ \E k, m \in FetchEntries :
          /\ log[m][2] = log[k][2] + 2
          /\ \E j \in (k + 1)..(m - 1) : log[j] = <<"skip", log[k][2] + 1>>
    /\ Cardinality({d \in 1..Len(log) : log[d][1] = "sleep"}) = 2

=============================================================================
